---------------------------- MODULE Spec2Model ----------------------------
(***************************************************************************)
(* State-machine model of the studio99 mobile front-end: the short-video   *)
(* home feed (Home, VideoWrapper), the onboarding carousel and its slides, *)
(* the root layout with its animated splash, the simulated OAuth login,    *)
(* the user-type cards, the profile-setup forms and the CustomButton.      *)
(*                                                                         *)
(* Conventions.  A React state cell is a variable.  A handler is one       *)
(* action: the setState calls it makes and the re-render they cause (the   *)
(* props every child is rendered with) happen in that action.  A useEffect *)
(* body is an action of its own, taken once for every component the last   *)
(* render scheduled it for; React flushes the effects of one commit before *)
(* it renders again, in tree order (siblings by ascending index), so a     *)
(* handler is enabled only when no effect of its screen is pending.        *)
(* ev is a history variable: the name and argument of the last step.       *)
(***************************************************************************)
EXTENDS Integers, Sequences, FiniteSets, TLC

(***************************************************************************)
(* Bounds of the model.                                                    *)
(***************************************************************************)
\* number of rows of the feed (the N of the feed claims)
NumRows == 3
\* most rows one viewability report names
MaxViewable == 2
\* width of the window in layout units (Dimensions.get('window').width)
Width == 2
\* most router calls recorded in navLog
MaxNav == 3
\* most scrollToIndex requests recorded in scrollLog
MaxScrollLog == 2

\* presses of a form's button
MaxPresses == 3

\* applications of applyFont in a row
MaxApply == 2

VARIABLES
    ev,                 \* history: <<name, argument>> of the last step
    homeCurrentIndex,   \* Home: const [currentIndex, setCurrentIndex] = useState(0)
    mountedRows,        \* rows of the FlatList that are mounted (a contiguous window)
    isActive,           \* VideoWrapper: isActive of each row at its last render
    playing,            \* VideoWrapper: whether the row's player is playing
    rowEffects,         \* rows whose play/pause effect is scheduled and has not run
    liked,              \* VideoWrapper: const [liked, setLiked] = useState(false)
    lastReport          \* history: viewableItems of the last viewability report

feedVars == <<homeCurrentIndex, mountedRows, isActive, playing, rowEffects, liked, lastReport>>

VARIABLES
    navLog,             \* history: the router calls issued so far, <<method, path>> each
    loaded,             \* InitialLayout: loaded of const [loaded, error] = useFonts(...)
    fontError,          \* InitialLayout: whether error of useFonts is set
    isAppReady,         \* InitialLayout: useState(false)
    isSplashAnimationComplete,  \* InitialLayout: useState(false)
    layoutEffects,      \* InitialLayout: its scheduled effects, in declaration order
    rootView,           \* what InitialLayout's last render returned
    thrown,             \* whether the error effect has thrown
    splashEffect,       \* AnimatedSplash: whether its mount effect is scheduled
    splashPhase,        \* AnimatedSplash: the step of Animated.sequence that is running
    running,            \* the running splash animations, <<name, remaining ms>> each
    splashStarts,       \* history: how often the splash sequence was started
    nativeSplashHidden, \* whether SplashScreen.hideAsync() was called
    navTimers           \* remaining ms of the pending setTimeout of handleAnimationComplete

rootVars == <<loaded, fontError, isAppReady, isSplashAnimationComplete, layoutEffects,
              rootView, thrown, splashEffect, splashPhase, running, splashStarts,
              nativeSplashHidden, navTimers>>

VARIABLES
    obFile,             \* which Onboarding source file serves the route
    obMounted,          \* whether the Onboarding screen is mounted
    obCurrentIndex,     \* Onboarding: const [currentIndex, setCurrentIndex] = useState(0)
    obScrollX,          \* Onboarding: scrollX.current
    obPrevIndex,        \* history: currentIndex before the last re-render (-1: none)
    slideProp,          \* the currentIndex prop each slide was last rendered with
    slideEffects,       \* slides whose entrance effect is scheduled and has not run
    slideRuns,          \* history: entrance-animation runs each slide started since
                        \* the last render of Onboarding
    scrollLog,          \* history: the indices requested with scrollToIndex
    slideVals,          \* the Animated.Value objects of each slide, by name
    slideAnimating      \* slides whose timed transition is under way

obVars == <<obFile, obMounted, obCurrentIndex, obScrollX, obPrevIndex, slideProp,
            slideEffects, slideRuns, scrollLog, slideVals, slideAnimating>>

VARIABLES
    authIsLoading,      \* auth Page: const [isLoading, setIsLoading] = useState(false)
    authTimers,         \* remaining ms of the pending setTimeout calls of onPress
    utMounted,          \* whether the user-type screen is mounted
    selectedType,       \* user-type Page: useState<UserType>(null)
    cardSelected,       \* UserTypeCard: const [selected, setSelected] = useState(isSelected)
    cardIsSelected,     \* the isSelected prop each card was last rendered with
    cardEffects         \* cards whose isSelected effect is scheduled and has not run

authVars == <<authIsLoading, authTimers>>

utVars == <<utMounted, selectedType, cardSelected, cardIsSelected, cardEffects>>

VARIABLES
    formScreen,         \* which profile-setup screen is mounted
    fields,             \* the screen's field states (firstName, ..., or username, ...)
    errors,             \* the screen's errors object; its keys are the function's domain
    image,              \* creator screen: useState<string | null>(null)
    inputText,          \* CustomInput: const [text, setText] = useState('') of each input
    btnLoadingProp,     \* the loading prop CustomButton was last rendered with
    btnIsLoading,       \* CustomButton: const [isLoading, setIsLoading] = useState(loading)
    btnEffect,          \* whether CustomButton's [loading] effect is scheduled
    onPressCalls        \* how many times the button's onPress callback was invoked

formVars == <<formScreen, fields, errors, image, inputText>>

btnVars == <<btnLoadingProp, btnIsLoading, btnEffect, onPressCalls>>

VARIABLES
    afGiven,            \* whether applyFont is called with a style argument at all
    afStyle,            \* the style object passed to applyFont
    afFamily,           \* the fontFamily argument ("undefined": not passed)
    afResult,           \* the object the last call returned
    afApplied           \* how many times applyFont was applied in a row

fontVars == <<afGiven, afStyle, afFamily, afResult, afApplied>>

vars == <<ev, navLog, feedVars, rootVars, obVars, authVars, utVars, formVars, btnVars, fontVars>>

(***************************************************************************)
(* Helpers.                                                                *)
(***************************************************************************)
Min(S) == CHOOSE x \in S : \A y \in S : x <= y

Max(S) == CHOOSE x \in S : \A y \in S : y <= x

Range(s) == {s[n] : n \in 1..Len(s)}

\* sequences without repetition, of length at most n, over the set S
DistinctSeqs(S, n) ==
    {s \in UNION {[1..m -> S] : m \in 0..n} :
        \A a, b \in 1..Len(s) : a # b => s[a] # s[b]}

(***************************************************************************)
(* Video feed: Home and VideoWrapper.                                      *)
(***************************************************************************)
Rows == 0..(NumRows - 1)

\* Home.onViewableItemsChanged: the index the handler leaves in currentIndex.
\* The first element of the report (JavaScript index 0) is sequence index 1.
NextActiveIndexLastItem(cur, viewableItems) ==
    IF Len(viewableItems) > 0 THEN viewableItems[Len(viewableItems)] ELSE cur

NextActiveIndexResetOnEmpty(cur, viewableItems) ==
    IF Len(viewableItems) > 0 THEN viewableItems[1] ELSE 0

NextActiveIndex(cur, viewableItems) ==
    IF Len(viewableItems) > 0 THEN viewableItems[1] ELSE cur

\* VideoWrapper: const isActive = index === currentIndex
IsActiveOf(index, cur) == index = cur

\* VideoWrapper's effect: play on a match, pause on a mismatch.
PlayerAfterEffectNoPause(wasPlaying, active) ==
    IF active THEN TRUE ELSE wasPlaying

PlayerAfterEffect(wasPlaying, active) ==
    IF active THEN TRUE ELSE FALSE

PlayerAfterSetupAutoplay(active) == TRUE

\* useVideoPlayer's setup callback: a new player is paused, and plays if active
PlayerAfterSetup(active) ==
    IF active THEN TRUE ELSE FALSE

\* the rows of Home re-rendered with the active index cur
RenderRows(cur, rows) == [i \in Rows |-> i \in rows /\ IsActiveOf(i, cur)]

FeedInit ==
    /\ homeCurrentIndex = 0
    /\ mountedRows = {0}
    /\ isActive = RenderRows(0, {0})
    /\ playing = [i \in Rows |-> i = 0 /\ PlayerAfterSetup(IsActiveOf(i, 0))]
    /\ rowEffects = {0}
    /\ liked = [i \in Rows |-> FALSE]
    /\ lastReport = <<>>

\* the viewability detector reports mounted rows, in whatever order
OnViewableItemsChanged(viewableItems) ==
    /\ rowEffects = {}
    /\ LET cur == NextActiveIndex(homeCurrentIndex, viewableItems)
           rendered == RenderRows(cur, mountedRows)
       IN  /\ homeCurrentIndex' = cur
           /\ isActive' = rendered
           /\ rowEffects' = {i \in mountedRows : rendered[i] # isActive[i]}
    /\ lastReport' = viewableItems
    /\ ev' = <<"onViewableItemsChanged", Len(viewableItems)>>
    /\ UNCHANGED <<mountedRows, playing, liked>>
    /\ UNCHANGED <<navLog, rootVars, obVars, authVars, utVars, formVars, btnVars, fontVars>>

\* useEffect(() => { if (isActive) player.play(); else player.pause() }, [isActive, player])
RowEffect(i) ==
    /\ i \in rowEffects
    /\ i = Min(rowEffects)
    /\ playing' = [playing EXCEPT ![i] = PlayerAfterEffect(playing[i], isActive[i])]
    /\ rowEffects' = rowEffects \ {i}
    /\ ev' = <<"rowEffect", i>>
    /\ UNCHANGED <<homeCurrentIndex, mountedRows, isActive, liked, lastReport>>
    /\ UNCHANGED <<navLog, rootVars, obVars, authVars, utVars, formVars, btnVars, fontVars>>

\* the FlatList mounts the row next to its window: a new VideoWrapper, whose
\* player is created by useVideoPlayer and whose effect runs after the mount
MountRow(i) ==
    /\ rowEffects = {}
    /\ i \in Rows \ mountedRows
    /\ i = Max(mountedRows) + 1 \/ i = Min(mountedRows) - 1
    /\ mountedRows' = mountedRows \cup {i}
    /\ isActive' = [isActive EXCEPT ![i] = IsActiveOf(i, homeCurrentIndex)]
    /\ playing' = [playing EXCEPT ![i] = PlayerAfterSetup(IsActiveOf(i, homeCurrentIndex))]
    /\ liked' = [liked EXCEPT ![i] = FALSE]
    /\ rowEffects' = {i}
    /\ ev' = <<"mountRow", i>>
    /\ UNCHANGED <<homeCurrentIndex, lastReport>>
    /\ UNCHANGED <<navLog, rootVars, obVars, authVars, utVars, formVars, btnVars, fontVars>>

\* the FlatList drops a row at the edge of its window that is not in view:
\* the row's state is discarded and its player released
UnmountRow(i) ==
    /\ rowEffects = {}
    /\ i \in mountedRows
    /\ Cardinality(mountedRows) > 1
    /\ i = Max(mountedRows) \/ i = Min(mountedRows)
    /\ i \notin Range(lastReport)
    /\ mountedRows' = mountedRows \ {i}
    /\ isActive' = [isActive EXCEPT ![i] = FALSE]
    /\ playing' = [playing EXCEPT ![i] = FALSE]
    /\ liked' = [liked EXCEPT ![i] = FALSE]
    /\ ev' = <<"unmountRow", i>>
    /\ UNCHANGED <<homeCurrentIndex, rowEffects, lastReport>>
    /\ UNCHANGED <<navLog, rootVars, obVars, authVars, utVars, formVars, btnVars, fontVars>>

\* <TouchableOpacity onPress={() => setLiked(!liked)}>
ToggleLiked(i) ==
    /\ rowEffects = {}
    /\ i \in mountedRows
    /\ liked' = [liked EXCEPT ![i] = ~liked[i]]
    /\ ev' = <<"toggleLiked", i>>
    /\ UNCHANGED <<homeCurrentIndex, mountedRows, isActive, playing, rowEffects, lastReport>>
    /\ UNCHANGED <<navLog, rootVars, obVars, authVars, utVars, formVars, btnVars, fontVars>>

Report == \E viewableItems \in DistinctSeqs(mountedRows, MaxViewable) :
              OnViewableItemsChanged(viewableItems)

RunRowEffect == \E i \in Rows : RowEffect(i)

Mount == \E i \in Rows : MountRow(i)

Unmount == \E i \in Rows : UnmountRow(i)

LikeMakesRowActive ==
    \E i \in mountedRows :
        /\ rowEffects = {}
        /\ liked' = [liked EXCEPT ![i] = ~liked[i]]
        /\ homeCurrentIndex' = i
        /\ ev' = <<"toggleLiked", i>>
        /\ UNCHANGED <<mountedRows, isActive, playing, rowEffects, lastReport>>
        /\ UNCHANGED <<navLog, rootVars, obVars, authVars, utVars, formVars, btnVars, fontVars>>

Like == \E i \in Rows : ToggleLiked(i)

(***************************************************************************)
(* Root layout (InitialLayout) and AnimatedSplash.                         *)
(***************************************************************************)
\* Animated.delay(100)
SplashDelayMs == 100
\* Animated.timing(logoScale, {duration: 1200})
LogoScaleMs == 1200
\* Animated.timing(logoOpacity, {duration: 1200})
LogoOpacityMs == 1200
\* Animated.timing(bgOpacity, {duration: 800})
BgOpacityMs == 800
\* Animated.timing(bgScale, {duration: 1500})
BgScaleMs == 1500
\* setTimeout(() => router.replace('/onboarding/onboard'), 1000)
NavDelayMs == 1000

\* what InitialLayout returns: null, <AnimatedSplash/> or the <Stack>
RootRenderNoGuard(fontsLoaded, ready, complete) ==
    IF ~complete THEN "splash" ELSE "stack"

RootRender(fontsLoaded, ready, complete) ==
    IF ~fontsLoaded \/ ~ready THEN "null"
    ELSE IF ~complete THEN "splash"
    ELSE "stack"

StepAnimationsRestart(phase) ==
    CASE phase = "logoScale" -> {<<"logoScale", LogoScaleMs>>}
      [] phase = "parallel" -> {<<"logoOpacity", LogoOpacityMs>>,
                                <<"bgOpacity", BgOpacityMs>>,
                                <<"bgScale", BgScaleMs>>}
      [] OTHER -> {<<"delay", SplashDelayMs>>}

\* the animations Animated.sequence starts for a step
StepAnimations(phase) ==
    CASE phase = "delay" -> {<<"delay", SplashDelayMs>>}
      [] phase = "logoScale" -> {<<"logoScale", LogoScaleMs>>}
      [] phase = "parallel" -> {<<"logoOpacity", LogoOpacityMs>>,
                                <<"bgOpacity", BgOpacityMs>>,
                                <<"bgScale", BgScaleMs>>}
      [] OTHER -> {}

NextPhaseStuck(phase) == phase

NextPhase(phase) ==
    CASE phase = "delay" -> "logoScale"
      [] phase = "logoScale" -> "parallel"
      [] OTHER -> "done"

RootInit ==
    /\ loaded = FALSE
    /\ fontError = FALSE
    /\ isAppReady = FALSE
    /\ isSplashAnimationComplete = FALSE
    /\ layoutEffects = <<"error", "loaded">>
    /\ rootView = RootRender(FALSE, FALSE, FALSE)
    /\ thrown = FALSE
    /\ splashEffect = FALSE
    /\ splashPhase = "none"
    /\ running = {}
    /\ splashStarts = 0
    /\ nativeSplashHidden = FALSE
    /\ navTimers = <<>>

\* the state Onboarding is mounted with: currentIndex 0, every slide rendered
\* and its effect scheduled.  part_010 passes each slide
\* currentIndex === index ? currentIndex : -1; onboard.tsx passes no prop and
\* only its first slide (part_001) is part of the sources.
SlidePropOf(file, cur, index) ==
    IF file = "part_010" /\ cur = index THEN cur ELSE -1

\* the last index of data = [Page1, Page2, Page3]: data.length - 1
LastSlide == 2

Slides == 0..LastSlide

\* useRef(new Animated.Value(...)).current of each slide
SlideInitialValues(j) ==
    CASE j = 0 -> [fadeAnim |-> 0, slideAnim |-> 50, slideAnim2 |-> -100]
      [] j = 1 -> [fadeAnim |-> 0, slideAnim |-> 50, slideAnim2 |-> -100]
      [] j = 2 -> [fadeAnim |-> 0, slideAnim |-> -100, rotateAnim |-> 0]

\* the setValue calls each slide's effect makes before it starts the transition
SlideResetValues(j) ==
    CASE j = 0 -> [fadeAnim |-> 0, slideAnim |-> 50, slideAnim2 |-> -100]
      [] j = 1 -> [fadeAnim |-> 0, slideAnim |-> 50]
      [] j = 2 -> [fadeAnim |-> 0, slideAnim |-> -100, rotateAnim |-> 0]

\* the toValue of each Animated.timing of the slide's Animated.parallel
SlideTargetValues(j) ==
    CASE j = 0 -> [fadeAnim |-> 1, slideAnim |-> 0, slideAnim2 |-> 0]
      [] j = 1 -> [fadeAnim |-> 1, slideAnim |-> 0, slideAnim2 |-> 0]
      [] j = 2 -> [fadeAnim |-> 1, slideAnim |-> 0, rotateAnim |-> 1]

\* the slide's values after the setValue calls of its effect
ValuesAfterReset(j, vals) ==
    [n \in DOMAIN vals |->
        IF n \in DOMAIN SlideResetValues(j) THEN SlideResetValues(j)[n] ELSE vals[n]]

ObUnmounted ==
    /\ slideVals = [j \in Slides |-> SlideInitialValues(j)]
    /\ slideAnimating = {}
    /\ obMounted = FALSE
    /\ obCurrentIndex = 0
    /\ obScrollX = 0
    /\ obPrevIndex = -1
    /\ slideProp = [j \in Slides |-> -1]
    /\ slideEffects = {}
    /\ slideRuns = [j \in Slides |-> 0]
    /\ scrollLog = <<>>

MountOnboarding ==
    /\ slideVals' = [j \in Slides |-> SlideInitialValues(j)]
    /\ slideAnimating' = {}
    /\ obMounted' = TRUE
    /\ obCurrentIndex' = 0
    /\ obScrollX' = 0
    /\ obPrevIndex' = -1
    /\ slideProp' = [j \in Slides |-> SlidePropOf(obFile, 0, j)]
    /\ slideEffects' = IF obFile = "part_010" THEN Slides ELSE {0}
    /\ slideRuns' = [j \in Slides |-> 0]
    /\ scrollLog' = <<>>
    /\ UNCHANGED obFile

\* when the view changes to <AnimatedSplash/> the component mounts
SplashMounts(view) == rootView # "splash" /\ view = "splash"

\* useFonts reports the fonts loaded: InitialLayout re-renders, and the effect
\* whose dependencies [loaded, onLayoutRootView] changed is scheduled
FontsLoaded ==
    /\ ~thrown /\ ~loaded /\ ~fontError
    /\ layoutEffects = <<>>
    /\ loaded' = TRUE
    /\ layoutEffects' = <<"loaded">>
    /\ LET view == RootRender(TRUE, isAppReady, isSplashAnimationComplete)
       IN  /\ rootView' = view
           /\ splashEffect' = (splashEffect \/ SplashMounts(view))
    /\ ev' = <<"fontsLoaded", 0>>
    /\ UNCHANGED <<fontError, isAppReady, isSplashAnimationComplete, thrown, splashPhase,
                   running, splashStarts, nativeSplashHidden, navTimers>>
    /\ UNCHANGED <<navLog, feedVars, obVars, authVars, utVars, formVars, btnVars, fontVars>>

\* useFonts reports an error: the effect with dependency [error] is scheduled
FontsFailed ==
    /\ ~thrown /\ ~loaded /\ ~fontError
    /\ layoutEffects = <<>>
    /\ fontError' = TRUE
    /\ layoutEffects' = <<"error">>
    /\ ev' = <<"fontsFailed", 0>>
    /\ UNCHANGED <<loaded, isAppReady, isSplashAnimationComplete, rootView, thrown,
                   splashEffect, splashPhase, running, splashStarts, nativeSplashHidden,
                   navTimers>>
    /\ UNCHANGED <<navLog, feedVars, obVars, authVars, utVars, formVars, btnVars, fontVars>>

\* useEffect(() => { if (error) { console.error(...); throw error } }, [error])
ErrorEffect ==
    /\ ~thrown
    /\ layoutEffects # <<>> /\ Head(layoutEffects) = "error"
    /\ layoutEffects' = IF fontError THEN <<>> ELSE Tail(layoutEffects)
    /\ thrown' = fontError
    /\ rootView' = IF fontError THEN "error" ELSE rootView
    /\ ev' = <<"errorEffect", 0>>
    /\ UNCHANGED <<loaded, fontError, isAppReady, isSplashAnimationComplete, splashEffect,
                   splashPhase, running, splashStarts, nativeSplashHidden, navTimers>>
    /\ UNCHANGED <<navLog, feedVars, obVars, authVars, utVars, formVars, btnVars, fontVars>>

\* useEffect(() => { if (loaded) onLayoutRootView() }, [loaded, onLayoutRootView])
\* with onLayoutRootView: if (loaded) setIsAppReady(true)
LoadedEffect ==
    /\ ~thrown
    /\ layoutEffects # <<>> /\ Head(layoutEffects) = "loaded"
    /\ layoutEffects' = Tail(layoutEffects)
    /\ isAppReady' = IF loaded THEN TRUE ELSE isAppReady
    /\ LET view == RootRender(loaded, isAppReady', isSplashAnimationComplete)
       IN  /\ rootView' = view
           /\ splashEffect' = (splashEffect \/ SplashMounts(view))
    /\ ev' = <<"loadedEffect", 0>>
    /\ UNCHANGED <<loaded, fontError, isSplashAnimationComplete, thrown, splashPhase,
                   running, splashStarts, nativeSplashHidden, navTimers>>
    /\ UNCHANGED <<navLog, feedVars, obVars, authVars, utVars, formVars, btnVars, fontVars>>

\* AnimatedSplash's mount effect: onReady() hides the native splash, then
\* Animated.sequence([...]).start(...) starts its first step
SplashMountEffect ==
    /\ ~thrown
    /\ splashEffect
    /\ layoutEffects = <<>>
    /\ splashEffect' = FALSE
    /\ nativeSplashHidden' = TRUE
    /\ splashPhase' = "delay"
    /\ running' = StepAnimations("delay")
    /\ splashStarts' = splashStarts + 1
    /\ ev' = <<"splashMountEffect", 0>>
    /\ UNCHANGED <<loaded, fontError, isAppReady, isSplashAnimationComplete, layoutEffects,
                   rootView, thrown, navTimers>>
    /\ UNCHANGED <<navLog, feedVars, obVars, authVars, utVars, formVars, btnVars, fontVars>>

\* time passes until the next animation or timer is due
Remaining == {a[2] : a \in running} \cup Range(navTimers)

AdvanceTime ==
    /\ ~thrown
    /\ Remaining # {}
    /\ \A r \in Remaining : r > 0
    /\ LET dt == Min(Remaining)
       IN  /\ running' = {<<a[1], a[2] - dt>> : a \in running}
           /\ navTimers' = [n \in 1..Len(navTimers) |-> navTimers[n] - dt]
    /\ ev' = <<"advanceTime", Min(Remaining)>>
    /\ UNCHANGED <<loaded, fontError, isAppReady, isSplashAnimationComplete, layoutEffects,
                   rootView, thrown, splashEffect, splashPhase, splashStarts,
                   nativeSplashHidden>>
    /\ UNCHANGED <<navLog, feedVars, obVars, authVars, utVars, formVars, btnVars, fontVars>>

\* an animation of the running step ends; when the step has none left the
\* sequence moves on, and after the last step start's callback runs
\* onAnimationComplete, that is handleAnimationComplete:
\*   setIsSplashAnimationComplete(true); setTimeout(() => router.replace(...), 1000)
AnimationEnds(a) ==
    /\ ~thrown
    /\ a \in running /\ a[2] = 0
    /\ LET rest == running \ {a}
           next == NextPhase(splashPhase)
       IN  IF rest # {}
           THEN /\ running' = rest
                /\ UNCHANGED <<splashPhase, isSplashAnimationComplete, navTimers, rootView>>
           ELSE /\ splashPhase' = next
                /\ running' = StepAnimations(next)
                /\ IF next = "done"
                   THEN /\ isSplashAnimationComplete' = TRUE
                        /\ navTimers' = Append(navTimers, NavDelayMs)
                        /\ rootView' = RootRender(loaded, isAppReady, TRUE)
                   ELSE UNCHANGED <<isSplashAnimationComplete, navTimers, rootView>>
    /\ ev' = <<"animationEnds", a[1]>>
    /\ UNCHANGED <<loaded, fontError, isAppReady, layoutEffects, thrown, splashEffect,
                   splashStarts, nativeSplashHidden>>
    /\ UNCHANGED <<navLog, feedVars, obVars, authVars, utVars, formVars, btnVars, fontVars>>

\* the timer of handleAnimationComplete fires: router.replace('/onboarding/onboard'),
\* which mounts the Onboarding screen
NavTimerFires ==
    /\ ~thrown
    /\ navTimers # <<>> /\ Head(navTimers) = 0
    /\ navTimers' = Tail(navTimers)
    /\ navLog' = Append(navLog, <<"replace", "/onboarding/onboard">>)
    /\ MountOnboarding
    /\ ev' = <<"navTimerFires", 0>>
    /\ UNCHANGED <<loaded, fontError, isAppReady, isSplashAnimationComplete, layoutEffects,
                   rootView, thrown, splashEffect, splashPhase, running, splashStarts,
                   nativeSplashHidden>>
    /\ UNCHANGED <<feedVars, authVars, utVars, formVars, btnVars, fontVars>>

SplashAnimationStep == \E a \in running : AnimationEnds(a)

(***************************************************************************)
(* Onboarding carousel and its slides.  Two Onboarding sources exist:      *)
(* onboard.tsx (no currentIndex prop, no navigation) and part_010.         *)
(***************************************************************************)
\* Math.round(x / w) for x >= 0: halves round up
RoundUpToNext(x, w) == x \div w + 1

Round(x, w) == (2 * x + w) \div (2 * w)

\* offsets the list can report: bounces={false} keeps them within the content
Offsets == 0..(LastSlide * Width)

\* a slide's effect: if (currentIndex === <its index>) { reset; start the animation }
SlideStartsRunAlways(j, prop) == TRUE

SlideStartsRunNever(j, prop) == FALSE

SlideStartsRun(j, prop) == prop = j

\* the first slide of onboard.tsx (part_001): useEffect(() => { ...start() }, [])
OldSlideStartsRun == TRUE

\* onScroll: scrollX.current = x; setCurrentIndex(Math.round(x / width)).
\* When the index changes Onboarding re-renders, every slide gets its new
\* currentIndex prop, and a slide whose prop changed has its effect scheduled.
OnScroll(x) ==
    /\ obMounted
    /\ slideEffects = {}
    /\ obScrollX' = x
    /\ LET idx == Round(x, Width)
           props == [j \in Slides |-> SlidePropOf(obFile, idx, j)]
       IN  /\ obCurrentIndex' = idx
           /\ IF idx # obCurrentIndex
              THEN /\ obPrevIndex' = obCurrentIndex
                   /\ slideProp' = props
                   /\ slideEffects' = {j \in Slides : props[j] # slideProp[j]}
                   /\ slideRuns' = [j \in Slides |-> 0]
              ELSE UNCHANGED <<obPrevIndex, slideProp, slideEffects, slideRuns>>
    /\ ev' = <<"onScroll", x>>
    /\ UNCHANGED <<obFile, obMounted, scrollLog, slideVals, slideAnimating>>
    /\ UNCHANGED <<navLog, feedVars, rootVars, authVars, utVars, formVars, btnVars, fontVars>>

ScrollTargetSkips(cur) == cur + 2

\* handleNext: scrollToIndex({ index: currentIndex + 1, animated: true })
ScrollTarget(cur) == cur + 1

\* part_010: handleNext
HandleNext ==
    /\ obMounted /\ obFile = "part_010"
    /\ slideEffects = {}
    /\ IF obCurrentIndex < LastSlide
       THEN /\ Len(scrollLog) < MaxScrollLog
            /\ scrollLog' = Append(scrollLog, ScrollTarget(obCurrentIndex))
            /\ UNCHANGED navLog
       ELSE /\ Len(navLog) < MaxNav
            /\ navLog' = Append(navLog, <<"replace", "/auth">>)
            /\ UNCHANGED scrollLog
    /\ ev' = <<"handleNext", obCurrentIndex>>
    /\ UNCHANGED <<obFile, obMounted, obCurrentIndex, obScrollX, obPrevIndex, slideProp,
                   slideEffects, slideRuns, slideVals, slideAnimating>>
    /\ UNCHANGED <<feedVars, rootVars, authVars, utVars, formVars, btnVars, fontVars>>

\* onboard.tsx: handleNext has no else branch
HandleNextOnboard ==
    /\ obMounted /\ obFile = "onboard.tsx"
    /\ slideEffects = {}
    /\ IF obCurrentIndex < LastSlide
       THEN /\ Len(scrollLog) < MaxScrollLog
            /\ scrollLog' = Append(scrollLog, ScrollTarget(obCurrentIndex))
       ELSE UNCHANGED scrollLog
    /\ ev' = <<"handleNext", obCurrentIndex>>
    /\ UNCHANGED <<obFile, obMounted, obCurrentIndex, obScrollX, obPrevIndex, slideProp,
                   slideEffects, slideRuns, slideVals, slideAnimating>>
    /\ UNCHANGED <<navLog, feedVars, rootVars, authVars, utVars, formVars, btnVars, fontVars>>

\* the entrance effect of slide j runs
SlideEffect(j) ==
    /\ obMounted
    /\ j \in slideEffects
    /\ j = Min(slideEffects)
    /\ slideEffects' = slideEffects \ {j}
    /\ LET starts == IF obFile = "part_010" THEN SlideStartsRun(j, slideProp[j])
                     ELSE OldSlideStartsRun
       IN  /\ slideRuns' = [slideRuns EXCEPT ![j] = IF starts THEN @ + 1 ELSE @]
           /\ slideVals' = IF starts /\ obFile = "part_010"
                            THEN [slideVals EXCEPT ![j] = ValuesAfterReset(j, @)]
                            ELSE slideVals
           /\ slideAnimating' = IF starts THEN slideAnimating \cup {j} ELSE slideAnimating
    /\ ev' = <<"slideEffect", j>>
    /\ UNCHANGED <<obFile, obMounted, obCurrentIndex, obScrollX, obPrevIndex, slideProp,
                   scrollLog>>
    /\ UNCHANGED <<navLog, feedVars, rootVars, authVars, utVars, formVars, btnVars, fontVars>>

\* the Animated.parallel of slide j has run to its end: every value is at
\* its toValue
SlideAnimationEnds(j) ==
    /\ obMounted
    /\ j \in slideAnimating
    /\ slideVals' = [slideVals EXCEPT ![j] = SlideTargetValues(j)]
    /\ slideAnimating' = slideAnimating \ {j}
    /\ ev' = <<"slideAnimationEnds", j>>
    /\ UNCHANGED <<obFile, obMounted, obCurrentIndex, obScrollX, obPrevIndex, slideProp,
                   slideEffects, slideRuns, scrollLog>>
    /\ UNCHANGED <<navLog, feedVars, rootVars, authVars, utVars, formVars, btnVars, fontVars>>

Scroll == \E x \in Offsets : OnScroll(x)

EntranceEnds == \E j \in Slides : SlideAnimationEnds(j)

RunSlideEffect == \E j \in Slides : SlideEffect(j)

(***************************************************************************)
(* Simulated login (auth Page) and the user-type screen with its cards.    *)
(***************************************************************************)
\* setTimeout(() => { setIsLoading(false) }, 2000)
LoginDelayMs == 2000

\* enum AuthType { Apple, Google }
AuthTypes == {"Apple", "Google"}

\* type UserType = 'student' | 'lecturer' | 'entertainment' | null
CardOrder == <<"student", "lecturer", "entertainment">>

CardTypes == Range(CardOrder)

\* a card's place in the tree: its effects run in this order
CardPos(c) == CHOOSE n \in 1..Len(CardOrder) : CardOrder[n] = c

CardRouteAlwaysStudent(c) == "/(authenticated)/(student)/profile-setup"

\* the route each card's onPress pushes
CardRoute(c) ==
    CASE c = "student" -> "/(authenticated)/(student)/profile-setup"
      [] c = "lecturer" -> "/(authenticated)/(lecturer)/profile-setup"
      [] c = "entertainment" -> "/(authenticated)/(creator)/profile-setup"

\* UserTypeCard.handlePress: setSelected(!selected)
CardAfterPressSetsTrue(selected) == TRUE

CardAfterPress(selected) == ~selected

CardAfterSyncKeepsSelected(selected, isSelectedProp) == selected \/ isSelectedProp

\* UserTypeCard's effect: setSelected(isSelected)
CardAfterSync(selected, isSelectedProp) == isSelectedProp

\* isSelected={selectedType === '<type>'}
IsSelectedOf(c, type) == type = c

AuthInit ==
    /\ authIsLoading = FALSE
    /\ authTimers = <<>>

UserTypeInit ==
    /\ utMounted = FALSE
    /\ selectedType = "null"
    /\ cardSelected = [c \in CardTypes |-> FALSE]
    /\ cardIsSelected = [c \in CardTypes |-> FALSE]
    /\ cardEffects = {}

\* router.replace('/usertype') mounts the user-type screen: selectedType is null,
\* every card is rendered with isSelected false and its effect is scheduled.
\* A repeated replace finds the screen mounted and leaves its state as it is.
MountUserType ==
    IF utMounted
    THEN UNCHANGED utVars
    ELSE /\ utMounted' = TRUE
         /\ selectedType' = "null"
         /\ cardSelected' = [c \in CardTypes |-> IsSelectedOf(c, "null")]
         /\ cardIsSelected' = [c \in CardTypes |-> IsSelectedOf(c, "null")]
         /\ cardEffects' = CardTypes

\* auth Page.onPress(authType): both branches do the same three things
OnPressAuth(authType) ==
    /\ Len(navLog) < MaxNav
    /\ authType \in AuthTypes
    /\ authIsLoading' = TRUE
    /\ navLog' = Append(navLog, <<"replace", "/usertype">>)
    /\ authTimers' = Append(authTimers, LoginDelayMs)
    /\ MountUserType
    /\ ev' = <<"onPressAuth", authType>>
    /\ UNCHANGED <<feedVars, rootVars, obVars, formVars, btnVars, fontVars>>

\* time passes while login timers are pending, by half the delay at most
AuthAdvanceTime ==
    /\ authTimers # <<>>
    /\ \A r \in Range(authTimers) : r > 0
    /\ LET dt == Min(Range(authTimers) \cup {LoginDelayMs \div 2})
       IN  authTimers' = [n \in 1..Len(authTimers) |-> authTimers[n] - dt]
    /\ ev' = <<"authAdvanceTime", 0>>
    /\ UNCHANGED <<authIsLoading, navLog, feedVars, rootVars, obVars, utVars>>
    /\ UNCHANGED <<formVars, btnVars, fontVars>>

LoadingAfterTimerKept(isLoading) == isLoading

\* the timer's callback: setIsLoading(false)
LoadingAfterTimer(isLoading) == FALSE

\* the callback of the oldest timer runs
AuthTimerFires ==
    /\ authTimers # <<>> /\ Head(authTimers) = 0
    /\ authTimers' = Tail(authTimers)
    /\ authIsLoading' = LoadingAfterTimer(authIsLoading)
    /\ ev' = <<"authTimerFires", 0>>
    /\ UNCHANGED <<navLog, feedVars, rootVars, obVars, utVars, formVars, btnVars, fontVars>>

\* a card is pressed: UserTypeCard.handlePress, then the Page's onPress;
\* the Page re-renders and a card whose isSelected changed has its effect scheduled
CardPress(c) ==
    /\ utMounted
    /\ cardEffects = {}
    /\ Len(navLog) < MaxNav
    /\ cardSelected' = [cardSelected EXCEPT ![c] = CardAfterPress(cardSelected[c])]
    /\ selectedType' = c
    /\ navLog' = Append(navLog, <<"push", CardRoute(c)>>)
    /\ LET props == [d \in CardTypes |-> IsSelectedOf(d, c)]
       IN  /\ cardIsSelected' = props
           /\ cardEffects' = {d \in CardTypes : props[d] # cardIsSelected[d]}
    /\ ev' = <<"cardPress", c>>
    /\ UNCHANGED <<utMounted, feedVars, rootVars, obVars, authVars, formVars, btnVars, fontVars>>

\* useEffect(() => { setSelected(isSelected) }, [isSelected])
CardSyncEffect(c) ==
    /\ utMounted
    /\ c \in cardEffects
    /\ \A d \in cardEffects : CardPos(c) <= CardPos(d)
    /\ cardSelected' = [cardSelected EXCEPT ![c] = CardAfterSync(cardSelected[c], cardIsSelected[c])]
    /\ cardEffects' = cardEffects \ {c}
    /\ ev' = <<"cardSyncEffect", c>>
    /\ UNCHANGED <<utMounted, selectedType, cardIsSelected>>
    /\ UNCHANGED <<navLog, feedVars, rootVars, obVars, authVars, formVars, btnVars, fontVars>>

PressOAuthButton == \E authType \in AuthTypes : OnPressAuth(authType)

PressCard == \E c \in CardTypes : CardPress(c)

RunCardEffect == \E c \in CardTypes : CardSyncEffect(c)

(***************************************************************************)
(* Profile-setup forms (student, lecturer, creator), CustomInput and        *)
(* CustomButton.                                                           *)
(***************************************************************************)
FormScreens == {"student", "lecturer", "creator"}

\* the text a change event can carry: an input emptied again, or some text
Texts == {"", "a"}

\* the useState fields of each screen
FieldsOf(screen) ==
    CASE screen = "student" ->
             {"firstName", "lastName", "email", "university", "department", "course", "level"}
      [] screen = "lecturer" ->
             {"firstName", "lastName", "email", "university", "faculty", "course"}
      [] screen = "creator" -> {"username", "displayName", "bio"}

\* the CustomInput elements of each screen, named by the field name their
\* onChangeText is wired with
InputsOf(screen) ==
    CASE screen = "student" ->
             {"firstName", "email", "university", "department", "course", "level"}
      [] screen = "lecturer" -> {"firstName", "email", "university", "faculty", "course"}
      [] screen = "creator" -> {"username", "displayName", "bio"}

ProfileHandleChangeSecondArgument(flds, text, field) == [f \in DOMAIN flds |-> field]

\* student and lecturer: handleChange = (text, field) => { setFirstName(text); ... }
ProfileHandleChange(flds, text, field) == [f \in DOMAIN flds |-> text]

ProfileErrorsAfterChangeRequired(errs, keys) ==
    [k \in (DOMAIN errs) \cup keys |-> "required"]

\* student and lecturer: if (errors) setErrors(prev => ({ ...prev, firstName: '', ... }))
ProfileErrorsAfterChange(errs, keys) ==
    [k \in (DOMAIN errs) \cup keys |-> IF k \in keys THEN "" ELSE errs[k]]

\* creator: handleChange = (field, text) => { if (field === 'username') ... }
CreatorHandleChange(flds, field, text) ==
    IF field \in {"username", "displayName", "bio"}
    THEN [flds EXCEPT ![field] = text]
    ELSE flds

\* creator: if (errors[field]) setErrors(prev => ({ ...prev, [field]: '' }))
CreatorErrorsAfterChange(errs, field) ==
    IF field \in DOMAIN errs /\ errs[field] # ""
    THEN [errs EXCEPT ![field] = ""]
    ELSE errs

\* the key of errors each input's error prop reads: error={errors.firstName}
\* on every input of the student and lecturer screens, error={errors.<name>}
\* on the creator screen
ErrorKeyOf(screen, input) == IF screen = "creator" THEN input ELSE "firstName"

\* CustomInput: error && { borderColor: 'red' }, {error && <Text ...>{error}</Text>}
ShowsError(errs, key) == key \in DOMAIN errs /\ errs[key] # ""

\* what ImagePicker.launchImageLibraryAsync can resolve to
PickerResults ==
    {[canceled |-> TRUE, base64 |-> ""]} \cup
    {[canceled |-> FALSE, base64 |-> b] : b \in {"x", "y"}}

DataUriRaw(base64) == base64

\* `data:image/jpeg;base64,${result.assets[0].base64}`
DataUri(base64) == "data:image/jpeg;base64," \o base64

OnPressPushesOnEveryScreen(screen) == TRUE

\* whether the onPress the screen passes to its CustomButton navigates:
\* () => { } on the student and lecturer screens, router.push on the creator's
OnPressPushes(screen) == screen = "creator"

\* the route the creator screen's button pushes
CreatorHomeRoute == "/(authenticated)/(creator)/(tabs)/home"

ButtonAfterPressSetsTrue(isLoading) == TRUE

ButtonAfterPressKeeps(isLoading) == isLoading

ButtonAfterSyncKeeps(isLoading, loading) == isLoading

\* CustomButton.handlePress: setIsLoading(!isLoading)
ButtonAfterPress(isLoading) == ~isLoading

\* CustomButton's effect: setIsLoading(loading)
ButtonAfterSync(isLoading, loading) == loading

FormInit ==
    /\ formScreen \in FormScreens
    /\ fields = [f \in FieldsOf(formScreen) |-> ""]
    /\ errors = [k \in {} |-> ""]
    /\ image = "null"
    /\ inputText = [i \in InputsOf(formScreen) |-> ""]

\* every screen renders <CustomButton ... loading={false} />
ButtonInit ==
    /\ btnLoadingProp = FALSE
    /\ btnIsLoading = btnLoadingProp
    /\ btnEffect = TRUE
    /\ onPressCalls = 0

\* CustomInput.handleTextChange(text) of one input: setText(text), then the
\* screen's onChangeText, which on the student and lecturer screens is
\* handleChange.bind(null, '<name>') and on the creator screen is
\* (text) => handleChange('<name>', text)
HandleTextChange(input, typed) ==
    /\ ~btnEffect
    /\ input \in InputsOf(formScreen)
    /\ typed # inputText[input]
    /\ inputText' = [inputText EXCEPT ![input] = typed]
    /\ IF formScreen = "creator"
       THEN /\ fields' = CreatorHandleChange(fields, input, typed)
            /\ errors' = CreatorErrorsAfterChange(errors, input)
       ELSE /\ fields' = ProfileHandleChange(fields, input, typed)
            /\ errors' = ProfileErrorsAfterChange(errors, FieldsOf(formScreen))
    /\ ev' = <<"handleTextChange", input>>
    /\ UNCHANGED <<formScreen, image, navLog, btnVars>>
    /\ UNCHANGED <<feedVars, rootVars, obVars, authVars, utVars, fontVars>>

\* creator: onCaptureImage, with the picker's result
OnCaptureImage(result) ==
    /\ ~btnEffect
    /\ formScreen = "creator"
    /\ image' = IF ~result.canceled THEN DataUri(result.base64) ELSE image
    /\ ev' = <<"onCaptureImage", result.base64>>
    /\ UNCHANGED <<formScreen, fields, errors, inputText, navLog, btnVars>>
    /\ UNCHANGED <<feedVars, rootVars, obVars, authVars, utVars, fontVars>>

\* useEffect(() => { setIsLoading(loading) }, [loading]), scheduled at mount
ButtonEffect ==
    /\ btnEffect
    /\ btnIsLoading' = ButtonAfterSync(btnIsLoading, btnLoadingProp)
    /\ btnEffect' = FALSE
    /\ ev' = <<"buttonEffect", 0>>
    /\ UNCHANGED <<btnLoadingProp, onPressCalls, navLog, formVars>>
    /\ UNCHANGED <<feedVars, rootVars, obVars, authVars, utVars, fontVars>>

\* CustomButton.handlePress: setIsLoading(!isLoading); onPress().  The
\* screen's onPress is () => { } on the student and lecturer screens and
\* router.push(home) on the creator screen.
HandlePress ==
    /\ ~btnEffect
    /\ onPressCalls < MaxPresses
    /\ btnIsLoading' = ButtonAfterPress(btnIsLoading)
    /\ onPressCalls' = onPressCalls + 1
    /\ IF OnPressPushes(formScreen)
       THEN /\ Len(navLog) < MaxNav
            /\ navLog' = Append(navLog, <<"push", CreatorHomeRoute>>)
       ELSE UNCHANGED navLog
    /\ ev' = <<"handlePress", 0>>
    /\ UNCHANGED <<btnLoadingProp, btnEffect, formVars>>
    /\ UNCHANGED <<feedVars, rootVars, obVars, authVars, utVars, fontVars>>

\* the parent of a CustomButton renders it with loading = v: the [loading]
\* effect is scheduled if the value differs from the last render's
RenderWithLoading(v) ==
    /\ ~btnEffect
    /\ btnLoadingProp' = v
    /\ btnEffect' = (v # btnLoadingProp)
    /\ ev' = <<"renderWithLoading", 0>>
    /\ UNCHANGED <<btnIsLoading, onPressCalls, navLog, formVars>>
    /\ UNCHANGED <<feedVars, rootVars, obVars, authVars, utVars, fontVars>>

ParentRenders == \E v \in BOOLEAN : RenderWithLoading(v)

ChangeText ==
    \E input \in InputsOf(formScreen) : \E typed \in Texts : HandleTextChange(input, typed)

CaptureImage == \E result \in PickerResults : OnCaptureImage(result)

(***************************************************************************)
(* applyFont.                                                              *)
(***************************************************************************)
\* FONTS.LEAGUE_SPARTAN
LEAGUE_SPARTAN == "LeagueSpartan"

\* the keys and values of the TextStyle objects applyFont is applied to
StyleValues ==
    [fontFamily |-> {LEAGUE_SPARTAN, "Inter"},
     fontSize |-> {"12", "16"},
     color |-> {"#fff"}]

StyleKeys == DOMAIN StyleValues

Styles ==
    UNION {{st \in [K -> UNION {StyleValues[k] : k \in K}] :
               \A k \in K : st[k] \in StyleValues[k]} : K \in SUBSET StyleKeys}

\* the fontFamily argument: not passed, the default's own value, or another
Families == {"undefined", LEAGUE_SPARTAN, "Inter"}

\* style: TextStyle = {}
StyleParam(given, style) == IF given THEN style ELSE [k \in {} |-> ""]

\* fontFamily = FONTS.LEAGUE_SPARTAN
FamilyParam(arg) == IF arg = "undefined" THEN LEAGUE_SPARTAN ELSE arg

\* { fontFamily, ...style }: the style's own fontFamily would win
SpreadStyleLast(style, fontFamily) ==
    [k \in (DOMAIN style) \cup {"fontFamily"} |->
        IF k \in DOMAIN style THEN style[k] ELSE fontFamily]

\* { ...style, fontFamily }
SpreadThenFamily(style, fontFamily) ==
    [k \in (DOMAIN style) \cup {"fontFamily"} |->
        IF k = "fontFamily" THEN fontFamily ELSE style[k]]

\* applyFont(style, fontFamily): the returned object
ApplyFont(given, style, arg) == SpreadThenFamily(StyleParam(given, style), FamilyParam(arg))

\* applyFont(style, fontFamily): the argument object after the call (the
\* spread reads it and writes a fresh object)
ArgumentAfterApplyFont(style) == style

\* no call of applyFont is under consideration
FontIdle ==
    /\ afGiven = FALSE
    /\ afStyle = [k \in {} |-> ""]
    /\ afFamily = "undefined"
    /\ afResult = [k \in {} |-> ""]
    /\ afApplied = 0

FontInit ==
    /\ afGiven \in BOOLEAN
    /\ afStyle \in Styles
    /\ afFamily \in Families
    /\ afResult = [k \in {} |-> ""]
    /\ afApplied = 0

\* s1 = applyFont(style, family), later calls s(n+1) = applyFont(s(n), family)
ApplyFontCall ==
    /\ afApplied < MaxApply
    /\ IF afApplied = 0
       THEN /\ afResult' = ApplyFont(afGiven, afStyle, afFamily)
            /\ afStyle' = ArgumentAfterApplyFont(afStyle)
       ELSE /\ afResult' = ApplyFont(TRUE, afResult, afFamily)
            /\ afStyle' = afStyle
    /\ afApplied' = afApplied + 1
    /\ ev' = <<"applyFont", afApplied>>
    /\ UNCHANGED <<afGiven, afFamily, navLog>>
    /\ UNCHANGED <<feedVars, rootVars, obVars, authVars, utVars, formVars, btnVars>>

\* the screens as constructed
ScreensInit ==
    /\ ev = <<"init", 0>>
    /\ navLog = <<>>
    /\ FeedInit
    /\ RootInit
    /\ obFile \in {"onboard.tsx", "part_010"}
    /\ ObUnmounted
    /\ AuthInit
    /\ UserTypeInit
    /\ FormInit
    /\ ButtonInit

Init == ScreensInit /\ FontIdle

\* the arguments of applyFont range over the bounded styles and families
InitFont == ScreensInit /\ FontInit

NextFeed == Report \/ RunRowEffect \/ Mount \/ Unmount \/ Like

SpecFeed == Init /\ [][NextFeed]_vars

\* the start of the app: the root layout, the splash, then the onboarding screen
NextStartup ==
    \/ FontsLoaded \/ FontsFailed \/ ErrorEffect \/ LoadedEffect
    \/ SplashMountEffect \/ AdvanceTime \/ SplashAnimationStep \/ NavTimerFires
    \/ Scroll \/ HandleNext \/ HandleNextOnboard \/ RunSlideEffect \/ EntranceEnds

SpecStartup == Init /\ [][NextStartup]_vars

\* effects are flushed, animations run and due timers fire
SpecStartupFair ==
    /\ SpecStartup
    /\ WF_vars(ErrorEffect) /\ WF_vars(LoadedEffect) /\ WF_vars(SplashMountEffect)
    /\ WF_vars(AdvanceTime) /\ WF_vars(SplashAnimationStep) /\ WF_vars(NavTimerFires)

\* the auth Page and the user-type screen it replaces itself with
NextAuth ==
    \/ PressOAuthButton \/ AuthAdvanceTime \/ AuthTimerFires
    \/ PressCard \/ RunCardEffect

SpecAuth == Init /\ [][NextAuth]_vars

\* one profile-setup screen with its inputs and its button
NextForms == ChangeText \/ CaptureImage \/ ButtonEffect \/ HandlePress

SpecForms == Init /\ [][NextForms]_vars

\* applyFont applied to a style, and again to its own result
NextFont == ApplyFontCall

SpecFont == InitFont /\ [][NextFont]_vars

\* a CustomButton under a parent that may change its loading prop
NextButton == ButtonEffect \/ HandlePress \/ ParentRenders

SpecButton == Init /\ [][NextButton]_vars

\* timers fire: the JavaScript runtime lets time pass and runs due callbacks
SpecAuthFair ==
    SpecAuth /\ WF_vars(AuthAdvanceTime) /\ WF_vars(AuthTimerFires)

(***************************************************************************)
(* Claims about the video feed, checked under SpecFeed.                    *)
(***************************************************************************)
\* every play/pause effect of the last render has run
FeedSettled == rowEffects = {}

PlayingRows == {i \in mountedRows : playing[i]}

\* C1: after a non-empty viewability report whose first element has index k,
\* once every mounted row's play/pause effect has run, the row at index k is
\* playing and every other mounted row is paused.
C1_FirstVisibleRowPlays ==
    (FeedSettled /\ Len(lastReport) > 0) =>
        /\ lastReport[1] \in mountedRows
        /\ homeCurrentIndex = lastReport[1]
        /\ \A i \in mountedRows : playing[i] <=> (i = lastReport[1])

\* a report of two rows whose first is row 2 has been delivered and the effects
\* have run: row 2 plays, row 1 (the row that played before) is paused
C1_Witness ==
    /\ FeedSettled
    /\ ev[1] = "rowEffect"
    /\ lastReport = <<2, 1>>
    /\ playing[2] /\ ~playing[1]

\* C2 as stated: in every reachable state, the states between the active-index
\* update and the rows' effects included, at most one player is playing.
C2_AtMostOnePlayingAlways == Cardinality(PlayingRows) <= 1

\* C2 as amended: in every state in which no play/pause effect is pending, at
\* most one mounted player is playing, and it is the row at the active index.
C2_AtMostOnePlayingWhenSettled ==
    FeedSettled =>
        /\ Cardinality(PlayingRows) <= 1
        /\ PlayingRows \subseteq {homeCurrentIndex}

\* three rows are mounted, the active index has moved away from row 0 and the
\* effects have run: exactly one of the three players is playing
C2_Witness ==
    /\ FeedSettled
    /\ mountedRows = {0, 1, 2}
    /\ homeCurrentIndex = 1
    /\ PlayingRows = {1}

\* C10: a viewability report with zero visible items leaves the active index
\* unchanged, schedules no play/pause effect and leaves the playing/paused
\* state of every row unchanged.
C10_EmptyReportChangesNothing ==
    [][(ev'[1] = "onViewableItemsChanged" /\ ev'[2] = 0) =>
          /\ homeCurrentIndex' = homeCurrentIndex
          /\ playing' = playing
          /\ isActive' = isActive
          /\ rowEffects' = {}]_vars

\* an empty report has just been delivered while row 1 was the active, playing row
C10_Witness ==
    /\ ev = <<"onViewableItemsChanged", 0>>
    /\ lastReport = <<>>
    /\ homeCurrentIndex = 1
    /\ PlayingRows = {1}

(***************************************************************************)
(* Claims about the start of the app and the onboarding carousel, checked  *)
(* under SpecStartup.                                                      *)
(***************************************************************************)
OnboardingSettled == obMounted /\ slideEffects = {}

\* the last render of part_010's Onboarding moved the page index from i to i+1
AdvancedByOne ==
    /\ obMounted /\ obFile = "part_010"
    /\ obPrevIndex \in {0, 1}
    /\ obCurrentIndex = obPrevIndex + 1

\* C3: when the page index changes from i to i+1 (i in {0,1}), exactly one
\* entrance-animation run is started for slide i+1 and none for any other
\* slide: no other slide ever starts one, slide i+1 never starts a second one,
\* and once the effects have run slide i+1 has started its one run.
C3_OneRunOnAdvance ==
    AdvancedByOne =>
        /\ \A j \in Slides \ {obCurrentIndex} : slideRuns[j] = 0
        /\ slideRuns[obCurrentIndex] <= 1
        /\ OnboardingSettled => slideRuns[obCurrentIndex] = 1

\* the index went from 1 to 2 and the effects have run: slide 2 started one run
C3_Witness ==
    /\ AdvancedByOne /\ OnboardingSettled
    /\ obPrevIndex = 1
    /\ ev[1] = "slideEffect"
    /\ slideRuns = [j \in Slides |-> IF j = 2 THEN 1 ELSE 0]

\* C4: pressing "Next" while the page index is the final index (2) issues
\* exactly one router.replace('/auth') for the press and requests no scroll.
C4_NextAtFinalNavigatesOnce ==
    [][(ev'[1] = "handleNext" /\ ev'[2] = LastSlide) =>
          /\ navLog' = Append(navLog, <<"replace", "/auth">>)
          /\ scrollLog' = scrollLog]_vars

IssuedOnboardingRoute ==
    \E n \in 1..Len(navLog) : navLog[n] = <<"replace", "/onboarding/onboard">>

\* C9: fonts are loaded first, then the splash animation plays, then control
\* is handed to the router: AnimatedSplash is not rendered (nor its animation
\* started) while the fonts are not loaded or isAppReady is false, and
\* router.replace('/onboarding/onboard') is neither scheduled nor issued
\* before the splash animation has reported completion.
C9_StartupOrder ==
    /\ (rootView = "splash" \/ splashEffect \/ splashPhase # "none") =>
           (loaded /\ isAppReady)
    /\ isAppReady => loaded
    /\ (navTimers # <<>> \/ IssuedOnboardingRoute) =>
           (isSplashAnimationComplete /\ splashPhase = "done" /\ running = {})

\* the whole start-up has happened: fonts, splash animation, navigation
C9_Witness ==
    /\ IssuedOnboardingRoute
    /\ loaded /\ isAppReady /\ isSplashAnimationComplete
    /\ nativeSplashHidden
    /\ rootView = "stack"

\* C6 as stated: pressing a card toggles that card's own highlighted state,
\* and a card's highlighted state changes in no step other than its own press.
C6_HighlightChangesOnlyOnOwnPress ==
    [][\A c \in CardTypes :
          /\ (ev'[1] = "cardPress" /\ ev'[2] = c) =>
                 cardSelected'[c] = ~cardSelected[c]
          /\ cardSelected'[c] # cardSelected[c] =>
                 (ev'[1] = "cardPress" /\ ev'[2] = c)]_vars

\* C6: pressing a card toggles that card's own highlighted state and the
\* press step leaves every sibling's highlighted state unchanged; a card's
\* highlighted state changes only in its own press or in the run of its own
\* isSelected effect, which sets it to the isSelected it was rendered with.
C6_PressTogglesOwnCardOnly ==
    [][\A c \in CardTypes :
          /\ (ev'[1] = "cardPress" /\ ev'[2] = c) =>
                 /\ cardSelected'[c] = ~cardSelected[c]
                 /\ \A d \in CardTypes \ {c} : cardSelected'[d] = cardSelected[d]
          /\ cardSelected'[c] # cardSelected[c] =>
                 \/ ev'[1] = "cardPress" /\ ev'[2] = c
                 \/ /\ ev'[1] = "cardSyncEffect" /\ ev'[2] = c
                    /\ cardSelected'[c] = cardIsSelected[c]]_vars

\* "student" was highlighted by its press, "lecturer" was pressed next, and
\* the effect of "student" has just removed its highlight
C6_Witness ==
    /\ ev = <<"cardSyncEffect", "student">>
    /\ selectedType = "lecturer"
    /\ cardSelected["lecturer"]
    /\ ~cardSelected["student"]
    /\ \E n \in 1..Len(navLog) : navLog[n] = <<"push", CardRoute("student")>>

\* C8: a press of a login button sets isLoading, replaces the route with
\* '/usertype' and schedules one 2000 ms timer; a pending timer goes away only
\* by firing, which clears isLoading (it is never cancelled); and every
\* pending timer does fire, so isLoading set by a press is cleared again.
C8_LoginAlwaysSucceeds ==
    /\ [][ev'[1] = "onPressAuth" =>
             /\ authIsLoading'
             /\ navLog' = Append(navLog, <<"replace", "/usertype">>)
             /\ authTimers' = Append(authTimers, LoginDelayMs)]_vars
    /\ [][Len(authTimers') < Len(authTimers) =>
             /\ ev'[1] = "authTimerFires"
             /\ authTimers' = Tail(authTimers)
             /\ ~authIsLoading']_vars
    /\ [][authIsLoading /\ ~authIsLoading' => ev'[1] = "authTimerFires"]_vars
    /\ (authTimers # <<>>) ~> (authTimers = <<>> /\ ~authIsLoading)
    /\ authIsLoading ~> ~authIsLoading

\* a login timer has fired after a press: the route was replaced and
\* isLoading is false again with no timer left
C8_Witness ==
    /\ ev[1] = "authTimerFires"
    /\ ~authIsLoading
    /\ authTimers = <<>>
    /\ \E n \in 1..Len(navLog) : navLog[n] = <<"replace", "/usertype">>

\* C5: on the student, lecturer and creator profile-setup screens a change
\* event on one input leaves the state of every field other than that
\* input's own field unchanged.
C5_ChangeUpdatesOnlyOwnField ==
    [][ev'[1] = "handleTextChange" =>
          \A f \in DOMAIN fields : f # ev'[2] => fields'[f] = fields[f]]_vars

\* C7: every press of CustomButton inverts isLoading and invokes onPress
\* exactly once, whatever the flag's value and whatever became of earlier
\* invocations of onPress.
C7_PressInvertsAndCallsOnPress ==
    [][ev'[1] = "handlePress" =>
          /\ btnIsLoading' = ~btnIsLoading
          /\ onPressCalls' = onPressCalls + 1
          /\ (formScreen = "creator" =>
                 navLog' = Append(navLog, <<"push", CreatorHomeRoute>>))]_vars

\* a press while the button shows its spinner (isLoading was true from the
\* press before) has put the flag back to false and called onPress again
C7_Witness ==
    /\ ev[1] = "handlePress"
    /\ onPressCalls = 2
    /\ ~btnIsLoading

\* C11: the errors object of a profile-setup screen never holds a non-empty
\* message: in every reachable state every key it has maps to ''.
C11_ErrorsNeverPopulated ==
    /\ \A k \in DOMAIN errors : errors[k] = ""
    /\ \A i \in InputsOf(formScreen) : ~ShowsError(errors, ErrorKeyOf(formScreen, i))

\* a change event on the student or lecturer screen has run setErrors: the
\* errors object has a key for every field, and each is ''
C11_Witness ==
    /\ ev[1] = "handleTextChange"
    /\ formScreen \in {"student", "lecturer"}
    /\ DOMAIN errors = FieldsOf(formScreen)
    /\ \E i \in InputsOf(formScreen) : inputText[i] # ""

\* the style object a call of applyFont reads: the argument of the first
\* call, the previous result of a repeated call
AppliedTo == IF afApplied = 0 THEN StyleParam(afGiven, afStyle) ELSE afResult

\* C12: the result of applyFont(style, family) has fontFamily = family
\* ('LeagueSpartan' when no family is passed) whatever fontFamily style had,
\* has exactly the keys of style plus fontFamily, carries every other key
\* over unchanged, leaves the argument object as it was, and applying it
\* again to its own result with the same family returns an equal object.
C12_ApplyFontMerges ==
    [][ev'[1] = "applyFont" =>
          /\ afResult'["fontFamily"] =
                 (IF afFamily = "undefined" THEN "LeagueSpartan" ELSE afFamily)
          /\ DOMAIN afResult' = (DOMAIN AppliedTo) \cup {"fontFamily"}
          /\ \A k \in (DOMAIN AppliedTo) \ {"fontFamily"} : afResult'[k] = AppliedTo[k]
          /\ afStyle' = afStyle
          /\ (afApplied >= 1 => afResult' = afResult)]_vars

\* applyFont was applied twice to a style that had another fontFamily and
\* another key: the family was overridden and the other key kept
C12_Witness ==
    /\ ev = <<"applyFont", 1>>
    /\ afGiven
    /\ "fontSize" \in DOMAIN afStyle
    /\ "fontFamily" \in DOMAIN afStyle
    /\ afStyle["fontFamily"] # afResult["fontFamily"]
    /\ afResult["fontSize"] = afStyle["fontSize"]

\* C13 as stated: on the student and lecturer screens a change event
\* carrying typed text t sets every field of the screen to t.
C13_ChangeSetsEveryFieldToTypedText ==
    [][(ev'[1] = "handleTextChange" /\ formScreen \in {"student", "lecturer"}) =>
          \A f \in DOMAIN fields : fields'[f] = inputText'[ev'[2]]]_vars

\* C13: on the student and lecturer screens a change event on one input sets
\* every field of the screen to one same value, the field name that input's
\* handler is bound with; the typed text is kept only in the input's own
\* text state.
C13_ChangeSetsEveryFieldToBoundName ==
    [][(ev'[1] = "handleTextChange" /\ formScreen \in {"student", "lecturer"}) =>
          /\ \A f \in DOMAIN fields : fields'[f] = ev'[2]
          /\ inputText'[ev'[2]] # inputText[ev'[2]]
          /\ \A i \in DOMAIN inputText : i # ev'[2] => inputText'[i] = inputText[i]]_vars

\* "a" was typed into the e-mail input of the student screen: the input
\* shows "a" and every field holds "email"
C13_Witness ==
    /\ ev = <<"handleTextChange", "email">>
    /\ formScreen = "student"
    /\ inputText["email"] = "a"
    /\ \A f \in FieldsOf("student") : fields[f] = "email"

\* C14: a row's player follows one equality check of its index against the
\* active index: the run of a row's effect and the mount of a row leave the
\* row playing exactly if its index equals the active index; a player starts
\* playing only at the active index (so a newly mounted inactive row does
\* not start) and a mounted player stops only at another index.
C14_PlayerFollowsEqualityCheck ==
    /\ [][\A i \in Rows :
             ((ev'[1] = "rowEffect" \/ ev'[1] = "mountRow") /\ ev'[2] = i) =>
                 (playing'[i] <=> (i = homeCurrentIndex'))]_vars
    /\ [][\A i \in Rows :
             /\ (~playing[i] /\ playing'[i]) => i = homeCurrentIndex'
             /\ (playing[i] /\ ~playing'[i] /\ i \in mountedRows') =>
                    i # homeCurrentIndex']_vars
    /\ [](FeedSettled => \A i \in mountedRows : playing[i] <=> (i = homeCurrentIndex))

\* row 2 has just been mounted while row 1 is the active row: row 2 is
\* paused, row 1 plays
C14_Witness ==
    /\ ev = <<"mountRow", 2>>
    /\ homeCurrentIndex = 1
    /\ ~playing[2] /\ playing[1]
    /\ 2 \in rowEffects

\* C15: the active index changes in no step other than a delivery of a
\* viewability report: likes, row effects, mounts and unmounts leave it as
\* it is.
C15_OnlyViewabilityWritesIndex ==
    [][homeCurrentIndex' # homeCurrentIndex =>
          ev'[1] = "onViewableItemsChanged"]_vars

\* the like of row 0 was toggled while row 1 is the active, playing row
C15_Witness ==
    /\ ev = <<"toggleLiked", 0>>
    /\ liked[0]
    /\ homeCurrentIndex = 1
    /\ PlayingRows = {1}

\* C16: while the onboarding screen is mounted its page index is one of
\* 0, 1, 2, whatever scroll offsets within [0, 2 * width] were reported and
\* however often "Next" was pressed.
C16_PageIndexIsValidCursor ==
    obMounted => obCurrentIndex \in {0, 1, 2}

\* the list was scrolled to its far end and "Next" pressed there: the index
\* is the last valid one
C16_Witness ==
    /\ obMounted
    /\ ev = <<"handleNext", 2>>
    /\ obScrollX = 2 * Width
    /\ obCurrentIndex = 2

\* C17: a press of "Next" while the page index i is below 2 requests one
\* scroll, to index i + 1 (which is at most 2), issues no navigation and
\* leaves the page index as it is; the index changes in scroll events only.
C17_NextRequestsScrollToSuccessor ==
    /\ [][(ev'[1] = "handleNext" /\ ev'[2] < 2) =>
             /\ ev'[2] = obCurrentIndex
             /\ scrollLog' = Append(scrollLog, obCurrentIndex + 1)
             /\ obCurrentIndex + 1 <= 2
             /\ navLog' = navLog
             /\ obCurrentIndex' = obCurrentIndex]_vars
    /\ [][(obMounted /\ obCurrentIndex' # obCurrentIndex) => ev'[1] = "onScroll"]_vars

\* "Next" was pressed twice on page 0 before any scroll event arrived: both
\* presses asked for page 1
C17_Witness ==
    /\ ev = <<"handleNext", 0>>
    /\ obCurrentIndex = 0
    /\ scrollLog = <<1, 1>>

\* C18: with part_010's Onboarding a slide runs its entrance animation when
\* it becomes the current page: a run is started only by the effect of the
\* slide that is the current page, one at a time; since the mount or the last
\* change of the page index no slide other than the current one has started
\* a run, the current one has started at most one, and exactly one once the
\* effects have run - at mount (slide 0) and after every change of the
\* index, forwards or backwards.
C18_RunWhenSlideBecomesCurrent ==
    /\ [][\A j \in Slides :
             (obMounted /\ obFile = "part_010" /\ slideRuns'[j] > slideRuns[j]) =>
                 /\ ev' = <<"slideEffect", j>>
                 /\ j = obCurrentIndex
                 /\ slideRuns'[j] = slideRuns[j] + 1]_vars
    /\ []((obMounted /\ obFile = "part_010") =>
             /\ \A j \in Slides \ {obCurrentIndex} : slideRuns[j] = 0
             /\ slideRuns[obCurrentIndex] <= 1
             /\ OnboardingSettled => slideRuns[obCurrentIndex] = 1)

\* the list was scrolled back from page 1 to page 0 and the effects have
\* run: slide 0 has started its run for the re-entry
C18_Witness ==
    /\ OnboardingSettled /\ obFile = "part_010"
    /\ obPrevIndex = 1 /\ obCurrentIndex = 0
    /\ ev[1] = "slideEffect"
    /\ slideRuns = [j \in Slides |-> IF j = 0 THEN 1 ELSE 0]

\* C19: every entrance-animation run of a slide of part_010's Onboarding
\* starts with all of the slide's animated values at their initial values.
C19_RunStartsFromInitialValues ==
    [][\A j \in Slides :
          (obFile = "part_010" /\ ev'[1] = "slideEffect" /\ ev'[2] = j
              /\ slideRuns'[j] > slideRuns[j]) =>
              slideVals'[j] = SlideInitialValues(j)]_vars

\* every router.push of the user-type screen recorded so far
CardPushes == {n \in 1..Len(navLog) : navLog[n][1] = "push"}

\* C20: every press of a card sets selectedType to the card's own type and
\* issues exactly one router.push, to the student route for "student", the
\* lecturer route for "lecturer" and the creator route for "entertainment";
\* selectedType changes in no other step, and it is null as long as no card
\* was pressed.
C20_PressSelectsAndPushes ==
    /\ [][ev'[1] = "cardPress" =>
             /\ selectedType' = ev'[2]
             /\ navLog' = Append(navLog, <<"push",
                    CASE ev'[2] = "student" -> "/(authenticated)/(student)/profile-setup"
                      [] ev'[2] = "lecturer" -> "/(authenticated)/(lecturer)/profile-setup"
                      [] ev'[2] = "entertainment" ->
                             "/(authenticated)/(creator)/profile-setup">>)]_vars
    /\ [][selectedType' # selectedType => ev'[1] = "cardPress"]_vars
    /\ [](CardPushes = {} => selectedType = "null")

\* the entertainment card was pressed after the student card
C20_Witness ==
    /\ ev = <<"cardPress", "entertainment">>
    /\ selectedType = "entertainment"
    /\ Cardinality(CardPushes) = 2
    /\ navLog[Len(navLog)] = <<"push", "/(authenticated)/(creator)/profile-setup">>
    /\ navLog[Len(navLog) - 1] = <<"push", "/(authenticated)/(student)/profile-setup">>

UserTypeSettled == utMounted /\ cardEffects = {}

HighlightedCards == {c \in CardTypes : cardSelected[c]}

\* C21: whenever no isSelected effect of the user-type screen is pending, a
\* highlighted card is the card whose type equals selectedType, so at most
\* one of the three cards is highlighted.
C21_HighlightedIsSelectedType ==
    UserTypeSettled =>
        /\ \A c \in HighlightedCards : selectedType = c
        /\ Cardinality(HighlightedCards) <= 1

\* the student card was pressed, then the lecturer card, and the effects
\* have run: the lecturer card alone is highlighted
C21_Witness ==
    /\ UserTypeSettled
    /\ ev[1] = "cardSyncEffect"
    /\ selectedType = "lecturer"
    /\ HighlightedCards = {"lecturer"}
    /\ \E n \in 1..Len(navLog) : navLog[n] = <<"push", CardRoute("student")>>

\* C22: whenever no isSelected effect of the user-type screen is pending
\* and selectedType equals a card's type, that card is highlighted.
C22_SelectedTypeIsHighlighted ==
    UserTypeSettled =>
        \A c \in CardTypes : selectedType = c => cardSelected[c]

\* C23: with the static loading={false} the form screens pass, once the
\* mount effect has run isLoading is true exactly if the number of presses
\* so far is odd, and the flag changes in no step other than a press.
C23_LoadingIsParityOfPresses ==
    /\ [](~btnEffect => (btnIsLoading <=> (onPressCalls % 2 = 1)))
    /\ [][btnIsLoading' # btnIsLoading => ev'[1] = "handlePress"]_vars
    /\ [](~btnLoadingProp)

\* the button was pressed three times: the spinner shows
C23_Witness ==
    /\ ev[1] = "handlePress"
    /\ onPressCalls = 3
    /\ btnIsLoading

\* C24: the run of CustomButton's [loading] effect leaves isLoading equal to
\* the loading prop, whatever presses happened before; after the mount the
\* effect is scheduled only by a render that changes the prop, a render with
\* the same value changes neither the flag nor schedules the effect, and the
\* flag changes only in a press or in a run of the effect.
C24_EffectSyncsToChangedProp ==
    /\ [][ev'[1] = "buttonEffect" => btnIsLoading' = btnLoadingProp]_vars
    /\ [][(btnEffect' /\ ~btnEffect) =>
             (ev'[1] = "renderWithLoading" /\ btnLoadingProp' # btnLoadingProp)]_vars
    /\ [][(ev'[1] = "renderWithLoading" /\ btnLoadingProp' = btnLoadingProp) =>
             (btnEffect' = btnEffect /\ btnIsLoading' = btnIsLoading)]_vars
    /\ [][btnIsLoading' # btnIsLoading =>
             (ev'[1] = "handlePress" \/ ev'[1] = "buttonEffect")]_vars

\* after two presses (flag false again) the parent rendered the button with
\* loading = true and the effect has set the flag
C24_Witness ==
    /\ ev[1] = "buttonEffect"
    /\ onPressCalls = 2
    /\ btnLoadingProp
    /\ btnIsLoading

\* C25: isLoading of the auth Page is true in every state in which at least
\* one login timer is pending.
C25_LoadingWhileTimerPending ==
    authTimers # <<>> => authIsLoading

\* the navigations to the onboarding screen issued so far
OnboardingNavigations ==
    {n \in 1..Len(navLog) : navLog[n] = <<"replace", "/onboarding/onboard">>}

\* C26: per app start the splash animation is started at most once and
\* reports completion at most once, a completion schedules one navigation
\* timer of 1000 ms, and router.replace('/onboarding/onboard') is scheduled
\* or issued exactly once after the completion and never before; once the
\* animation is complete AnimatedSplash is no longer rendered.
C26_SplashAndNavigationOnce ==
    /\ [](splashStarts <= 1)
    /\ [](Cardinality(OnboardingNavigations) + Len(navTimers) =
              (IF isSplashAnimationComplete THEN 1 ELSE 0))
    /\ [](isSplashAnimationComplete => (rootView = "stack" /\ ~splashEffect))
    /\ [][isSplashAnimationComplete' # isSplashAnimationComplete =>
             /\ ev'[1] = "animationEnds"
             /\ isSplashAnimationComplete'
             /\ navTimers' = <<1000>>]_vars
    /\ [][ev'[1] = "navTimerFires" => (navTimers = <<0>> /\ navTimers' = <<>>)]_vars

\* the navigation was issued, the onboarding screen has run its effects and
\* was scrolled: still one splash start and one navigation
C26_Witness ==
    /\ Cardinality(OnboardingNavigations) = 1
    /\ splashStarts = 1
    /\ navTimers = <<>>
    /\ rootView = "stack"
    /\ ev[1] = "onScroll"

\* C27: once the fonts are loaded the app goes on to hide the native
\* splash, complete the splash animation and issue the navigation to the
\* onboarding screen.
C27_StartupCompletes ==
    loaded ~> (/\ nativeSplashHidden
               /\ isSplashAnimationComplete
               /\ OnboardingNavigations # {})

\* the navigation timer has just fired after a successful font load
C27_Witness ==
    /\ ev[1] = "navTimerFires"
    /\ loaded /\ nativeSplashHidden /\ isSplashAnimationComplete
    /\ OnboardingNavigations # {}
    /\ obMounted

\* C28: when font loading reports an error the layout's [error] effect
\* throws it; with the error reported (the fonts are then not loaded) the
\* layout renders neither the splash nor the stack, the splash animation is
\* not started, the native splash is not hidden and no navigation to the
\* onboarding screen is scheduled or issued.
C28_FontFailureStopsStartup ==
    /\ [](fontError =>
             /\ ~loaded /\ ~isAppReady
             /\ rootView \in {"null", "error"}
             /\ splashStarts = 0 /\ ~splashEffect /\ splashPhase = "none"
             /\ ~nativeSplashHidden
             /\ navTimers = <<>> /\ OnboardingNavigations = {}
             /\ ~obMounted)
    /\ [][(ev'[1] = "errorEffect" /\ fontError) => thrown']_vars
    /\ [](thrown => fontError)

\* the font error was reported and the effect has thrown it
C28_Witness ==
    /\ ev[1] = "errorEffect"
    /\ fontError /\ thrown
    /\ ~nativeSplashHidden

\* C29: a run of the creator screen's image picker that is cancelled
\* leaves image as it was, one that is not cancelled sets image to
\* 'data:image/jpeg;base64,' followed by the first asset's base64; neither
\* changes a field, the errors or an input's text.
C29_PickerSetsImageOnly ==
    [][ev'[1] = "onCaptureImage" =>
          /\ formScreen = "creator"
          /\ image' = (IF ev'[2] = "" THEN image
                       ELSE "data:image/jpeg;base64," \o ev'[2])
          /\ fields' = fields /\ errors' = errors /\ inputText' = inputText]_vars

\* a picture had been picked and a second run of the picker was cancelled:
\* the first picture is kept, and so is the text typed before
C29_Witness ==
    /\ ev = <<"onCaptureImage", "">>
    /\ image = "data:image/jpeg;base64,x"
    /\ fields["username"] = "a"

\* C30: on the student and lecturer screens a press of the bottom button
\* issues no navigation and changes no field, error or input text; it only
\* inverts the button's isLoading, and no navigation is ever issued from
\* these screens.
C30_BottomButtonOnlyToggles ==
    /\ [][(ev'[1] = "handlePress" /\ formScreen \in {"student", "lecturer"}) =>
             /\ navLog' = navLog
             /\ fields' = fields /\ errors' = errors
             /\ inputText' = inputText /\ image' = image
             /\ btnIsLoading' = ~btnIsLoading]_vars
    /\ [](formScreen \in {"student", "lecturer"} => navLog = <<>>)

\* the button of the student screen was pressed after text was typed: no
\* route was pushed, the spinner shows
C30_Witness ==
    /\ ev[1] = "handlePress"
    /\ formScreen = "student"
    /\ inputText["email"] = "a"
    /\ navLog = <<>>
    /\ btnIsLoading

=============================================================================
